---- MODULE Spec2Model ----
(***************************************************************************)
(* Model of the G-kicks auto-delivery service (lib/auto-delivery-service)  *)
(* and of the database health-check route.  Every database round trip      *)
(* (an awaited executeQuery) is one atomic step; several invocations of    *)
(* checkAndMarkDeliveredOrders interleave at those steps.  Times are       *)
(* counted in days.                                                        *)
(***************************************************************************)
EXTENDS Integers, Sequences, FiniteSets, TLC

\* ---------------------------------------------------------------- bounds
NumOrders == 2
NumProcs == 2
MaxShippedAt == 2
MaxTicks == 1
NumCalls == 2
NumAddresses == 1

\* ------------------------------------------------------------- constants
SevenDays == 7
NULL == 0

Orders == 1..NumOrders
Procs == 1..NumProcs
Calls == 1..NumCalls
StartNow == SevenDays + 1
MaxNow == StartNow + MaxTicks

NoResult == [none |-> TRUE]

VARIABLES
  now,              \* NOW() of the database
  orders,           \* the orders table: id -> row
  tableExists,      \* whether auto_delivery_logs exists
  logs,             \* the auto_delivery_logs table, in insertion order
  pc,               \* per invocation slot: position in checkAndMarkDeliveredOrders
  selected,         \* the local `orders` array of the invocation
  idx,              \* position of the for-loop in `selected`
  processedOrders,  \* the local processedOrders array
  errors,           \* the local errors array
  result,           \* the value the last invocation returned
  hist,             \* history: outcome of each database call of the invocation
  affected,         \* history: per order, number of updates with affectedRows = 1
  auditFailed,      \* history: per order, number of audit inserts that failed
  statsPc,          \* position in getStats
  statsResult,      \* the value the last getStats returned
  statsHist,        \* history: outcome of the database calls of the last getStats
  healthResponse,   \* the response of the last health-check GET
  testResult,       \* history: outcome of testConnection in the last GET
  setupResult,      \* how the last setupAutoDeliveryLogsTable ended
  user,             \* useAuth().user of the latest render is set
  tokenReady,       \* useAuth().tokenReady of the latest render
  token,            \* localStorage holds an auth_token
  addresses,        \* the hook's addresses state
  loading,          \* the hook's loading state
  error,            \* the hook's error state
  call,             \* per call slot: the operation in flight, its await, its closure
  returned,         \* history: how the last finished operation of the hook ended
  effectPending     \* the useEffect on fetchAddresses has yet to run

vars == <<now, orders, tableExists, logs, pc, selected, idx, processedOrders,
          errors, result, hist, affected, auditFailed, statsPc, statsResult, statsHist,
          healthResponse, testResult, setupResult, user, tokenReady, token,
          addresses, loading, error, call, returned, effectPending>>

hookVars == <<user, tokenReady, token, addresses, loading, error, call, returned,
              effectPending>>

auxVars == <<setupResult, hookVars>>

apiVars == <<statsPc, statsResult, statsHist, healthResponse, testResult>>

sweepLocals == <<pc, selected, idx, processedOrders, errors, result, hist>>

\* ------------------------------------------------------------ data model
OrderNumberOf(id) == 1000 + id

\* ---------------------------------------------------------- SQL fragments
\* DATE_SUB(NOW(), INTERVAL 7 DAY)
DateSub(t) == t - SevenDays

\* the selection with `<` in place of `<=`
SelectWhereStrict(o, t) ==
  /\ o.status = "shipped"
  /\ o.shipped_at # NULL
  /\ o.shipped_at < DateSub(t)
  /\ (o.delivered_at = NULL \/ o.status # "delivered")

\* WHERE clause of the selection query
SelectWhere(o, t) ==
  /\ o.status = "shipped"
  /\ o.shipped_at # NULL
  /\ o.shipped_at <= DateSub(t)
  /\ (o.delivered_at = NULL \/ o.status # "delivered")

\* the columns the selection query returns for one order
Row(id) == [id |-> id, order_number |-> orders[id].order_number,
            shipped_at |-> orders[id].shipped_at]

\* ORDER BY shipped_at DESC
Descending(s) == \A i, j \in 1..Len(s) : i < j => s[i].shipped_at >= s[j].shipped_at

\* ORDER BY shipped_at ASC: every ordering of the matching rows that is
\* ascending in shipped_at (ties are in an order the database chooses)
Ascending(s) == \A i, j \in 1..Len(s) : i < j => s[i].shipped_at <= s[j].shipped_at

SelectRows ==
  LET ids == {id \in Orders : SelectWhere(orders[id], now)}
      n == Cardinality(ids)
  IN {s \in [1..n -> {Row(id) : id \in ids}] :
        /\ \A i, j \in 1..n : i # j => s[i] # s[j]
        /\ Ascending(s)}

\* the update keyed by id alone
UpdateWhereIdOnly(o) == TRUE

\* the update guarded against pending orders only
UpdateWhereNotPending(o) == o.status # "pending"

\* the update guarded by the wrong status
UpdateWhereDelivered(o) == o.status = "delivered"

\* WHERE id = ? AND status = 'shipped' of the update
UpdateWhere(o) == o.status = "shipped"

\* the update without delivered_at
UpdateSetStatusOnly(o, t) == [o EXCEPT !.status = "delivered"]

\* SET status = 'delivered', delivered_at = NOW()
UpdateSet(o, t) == [o EXCEPT !.status = "delivered", !.delivered_at = t]

\* rows the update changes
AffectedRows(id) == IF UpdateWhere(orders[id]) THEN 1 ELSE 0

\* the branches of the row-count test exchanged
IsAffectedNotOne(n) == n # 1

\* the success branch taken whatever the row count
IsAffectedAlways(n) == n >= 0

\* result.affectedRows === 1
IsAffected(n) == n = 1

\* ------------------------------------------------------- error handling
\* logAutoDelivery without its try/catch
CatchOfNoLogTry(site) ==
  CASE site = "select" -> "outer"
    [] site = "update" -> "inner"
    [] site = "insert" -> "inner"

\* checkAndMarkDeliveredOrders with the selection outside the outer try
CatchOfNoOuterTry(site) ==
  CASE site = "select" -> "none"
    [] site = "update" -> "inner"
    [] site = "insert" -> "logAutoDelivery"

\* which catch block receives an exception thrown at a call site
CatchOf(site) ==
  CASE site = "select" -> "outer"
    [] site = "update" -> "inner"
    [] site = "insert" -> "logAutoDelivery"

TopError == [kind |-> "top"]
NoRow == [id |-> NULL, order_number |-> NULL, shipped_at |-> NULL]
OrderError(row) == [kind |-> "order", order_number |-> row.order_number]

\* the value returned by the outer catch
OuterCatchResult(msg) ==
  [processedCount |-> 0, processedOrders |-> <<>>, errors |-> <<msg>>]

\* an empty selection reported as an error
EmptyResultWithError ==
  [processedCount |-> 0, processedOrders |-> <<>>, errors |-> <<TopError>>]

\* the value returned when no order is selected
EmptyResult == [processedCount |-> 0, processedOrders |-> <<>>, errors |-> <<>>]

\* the count taken over processed orders and errors together
LoopResultCountAll(po, er) ==
  [processedCount |-> Len(po) + Len(er), processedOrders |-> po, errors |-> er]

\* the value returned after the loop
LoopResult(po, er) ==
  [processedCount |-> Len(po), processedOrders |-> po, errors |-> er]

\* the inner catch block trying the same order again
CatchNextIndexRetry(i, n) == i

\* the inner catch block leaving the loop
CatchNextIndexBreak(i, n) == n + 1

\* the iteration that follows the inner catch block
CatchNextIndex(i, n) == i + 1

Event(id, ev) == [id |-> id, ev |-> ev]

\* the locals of an invocation that is not running
Returned(p, r, h) ==
  /\ pc' = [pc EXCEPT ![p] = "done"]
  /\ result' = [result EXCEPT ![p] = r]
  /\ hist' = [hist EXCEPT ![p] = h]
  /\ selected' = [selected EXCEPT ![p] = <<>>]
  /\ idx' = [idx EXCEPT ![p] = 1]
  /\ processedOrders' = [processedOrders EXCEPT ![p] = <<>>]
  /\ errors' = [errors EXCEPT ![p] = <<>>]

\* go on with iteration `next` of the for-loop, or return after the last one
Continue(p, er, h, next) ==
  IF next > Len(selected[p])
    THEN Returned(p, LoopResult(processedOrders[p], er), h)
    ELSE /\ pc' = [pc EXCEPT ![p] = "update"]
         /\ idx' = [idx EXCEPT ![p] = next]
         /\ errors' = [errors EXCEPT ![p] = er]
         /\ hist' = [hist EXCEPT ![p] = h]
         /\ UNCHANGED <<result, selected, processedOrders>>

\* an exception thrown at `site` while order `row` is processed
HandleThrow(p, site, row, h) ==
  LET c == CatchOf(site) IN
  CASE c = "logAutoDelivery" ->
         Continue(p, errors[p], h, idx[p] + 1)
    [] c = "inner" ->
         Continue(p, Append(errors[p], OrderError(row)), h,
                  CatchNextIndex(idx[p], Len(selected[p])))
    [] c = "outer" ->
         Returned(p, OuterCatchResult(TopError), h)
    [] OTHER ->
         /\ pc' = [pc EXCEPT ![p] = "thrown"]
         /\ hist' = [hist EXCEPT ![p] = h]
         /\ UNCHANGED <<idx, errors, result, selected, processedOrders>>

\* --------------------------------------- checkAndMarkDeliveredOrders
\* invocation up to and including the selection query
Select(p) ==
  /\ pc[p] \in {"idle", "done"}
  /\ UNCHANGED <<now, orders, tableExists, logs, affected, auditFailed>>
  /\ UNCHANGED apiVars
  /\ UNCHANGED auxVars
  /\ \/ \E rows \in SelectRows :
          IF Len(rows) = 0
            THEN Returned(p, EmptyResult, <<>>)
            ELSE /\ pc' = [pc EXCEPT ![p] = "update"]
                 /\ selected' = [selected EXCEPT ![p] = rows]
                 /\ idx' = [idx EXCEPT ![p] = 1]
                 /\ processedOrders' = [processedOrders EXCEPT ![p] = <<>>]
                 /\ errors' = [errors EXCEPT ![p] = <<>>]
                 /\ result' = [result EXCEPT ![p] = NoResult]
                 /\ hist' = [hist EXCEPT ![p] = <<>>]
     \/ HandleThrow(p, "select", NoRow, <<Event(NULL, "selectfail")>>)

\* the conditional update of the current order
Update(p) ==
  /\ pc[p] = "update"
  /\ UNCHANGED <<now, tableExists, logs, auditFailed>>
  /\ UNCHANGED apiVars
  /\ UNCHANGED auxVars
  /\ LET row == selected[p][idx[p]] IN
     \/ \* the update is executed
        LET n == AffectedRows(row.id)
            h == Append(hist[p], Event(row.id, IF n = 1 THEN "affected" ELSE "skipped"))
        IN
        /\ orders' = IF n = 1
                       THEN [orders EXCEPT ![row.id] = UpdateSet(@, now)]
                       ELSE orders
        /\ affected' = IF n = 1
                         THEN [affected EXCEPT ![row.id] = @ + 1]
                         ELSE affected
        /\ IF IsAffected(n)
             THEN /\ processedOrders' =
                       [processedOrders EXCEPT ![p] = Append(@, row.order_number)]
                  /\ pc' = [pc EXCEPT ![p] = "log"]
                  /\ hist' = [hist EXCEPT ![p] = h]
                  /\ UNCHANGED <<idx, errors, result, selected>>
             ELSE Continue(p, errors[p], h, idx[p] + 1)
     \/ \* the update throws
        /\ UNCHANGED <<orders, affected>>
        /\ HandleThrow(p, "update", row, Append(hist[p], Event(row.id, "threw")))

\* logAutoDelivery: the audit insert for the order just updated
Log(p) ==
  /\ pc[p] = "log"
  /\ UNCHANGED <<now, orders, tableExists, affected>>
  /\ UNCHANGED apiVars
  /\ UNCHANGED auxVars
  /\ LET row == selected[p][idx[p]] IN
     \/ /\ tableExists
        /\ UNCHANGED auditFailed
        /\ logs' = Append(logs, [order_id |-> row.id,
                                 order_number |-> row.order_number,
                                 processed_at |-> now])
        /\ Continue(p, errors[p], Append(hist[p], Event(row.id, "logged")), idx[p] + 1)
     \/ /\ UNCHANGED logs
        /\ auditFailed' = [auditFailed EXCEPT ![row.id] = @ + 1]
        /\ HandleThrow(p, "insert", row, Append(hist[p], Event(row.id, "logfail")))

SweepStep(p) == Select(p) \/ Update(p) \/ Log(p)

SweepNext == \E p \in Procs : SweepStep(p)

\* ------------------------------------------------------------ getStats
\* COUNT(*) of auto_delivery_logs
CountLogs(l) == Len(l)

\* the processed_at of the first row in place of the maximum
FirstProcessedAt(l) == IF Len(l) = 0 THEN NULL ELSE Head(l).processed_at

\* MAX(processed_at) of auto_delivery_logs, NULL for an empty table
RECURSIVE MaxProcessedAt(_)
MaxProcessedAt(l) ==
  IF Len(l) = 0 THEN NULL
  ELSE LET m == MaxProcessedAt(Tail(l))
       IN IF m = NULL \/ Head(l).processed_at > m THEN Head(l).processed_at ELSE m

\* the value getStats returns when the table is missing and in its catch block
ZeroStats == [totalProcessed |-> 0, lastProcessed |-> NULL, errorCount |-> 0]

\* the value getStats returns from the statistics row
StatsOf(l) ==
  [totalProcessed |-> CountLogs(l), lastProcessed |-> MaxProcessedAt(l),
   errorCount |-> 0]

\* the value returned by the catch block of getStats
StatsCatchResult == ZeroStats

StatsReturned(r, h) ==
  /\ statsPc' = "done"
  /\ statsResult' = r
  /\ statsHist' = h

\* invocation up to and including the INFORMATION_SCHEMA query
GetStatsTableCheck ==
  /\ statsPc \in {"idle", "done"}
  /\ UNCHANGED <<now, orders, tableExists, logs, affected, auditFailed, healthResponse, testResult>>
  /\ UNCHANGED sweepLocals
  /\ UNCHANGED auxVars
  /\ \/ LET cnt == IF tableExists THEN 1 ELSE 0 IN
        IF cnt = 0
          THEN StatsReturned(ZeroStats, "notable")
          ELSE /\ statsPc' = "query"
               /\ statsResult' = NoResult
               /\ statsHist' = "none"
     \/ StatsReturned(StatsCatchResult, "checkfail")

\* the statistics query and the return
GetStatsQuery ==
  /\ statsPc = "query"
  /\ UNCHANGED <<now, orders, tableExists, logs, affected, auditFailed, healthResponse, testResult>>
  /\ UNCHANGED sweepLocals
  /\ UNCHANGED auxVars
  /\ \/ StatsReturned(StatsOf(logs), "ok")
     \/ StatsReturned(StatsCatchResult, "queryfail")

GetStats == GetStatsTableCheck \/ GetStatsQuery

\* -------------------------------------------------- health-check GET
Absent == "absent"

\* getDatabaseConfig()
DatabaseConfig == [host |-> "host", database |-> "database"]

\* err?.message ?? "Unknown error"
ErrorMessage(outcome) ==
  IF outcome = "throwsMessage" THEN "message" ELSE "Unknown error"

\* GET without the status of the response for a failed test
HealthResponseFalseOk(outcome) ==
  CASE outcome = "true" ->
         [status |-> 200, success |-> TRUE, mysqlConnected |-> TRUE,
          host |-> DatabaseConfig.host, database |-> DatabaseConfig.database,
          error |-> Absent]
    [] outcome = "false" ->
         [status |-> 200, success |-> FALSE, mysqlConnected |-> FALSE,
          host |-> Absent, database |-> Absent, error |-> Absent]
    [] OTHER ->
         [status |-> 500, success |-> FALSE, mysqlConnected |-> FALSE,
          host |-> Absent, database |-> Absent, error |-> ErrorMessage(outcome)]

\* the response of GET for an outcome of testConnection
HealthResponse(outcome) ==
  CASE outcome = "true" ->
         [status |-> 200, success |-> TRUE, mysqlConnected |-> TRUE,
          host |-> DatabaseConfig.host, database |-> DatabaseConfig.database,
          error |-> Absent]
    [] outcome = "false" ->
         [status |-> 500, success |-> FALSE, mysqlConnected |-> FALSE,
          host |-> Absent, database |-> Absent, error |-> Absent]
    [] OTHER ->
         [status |-> 500, success |-> FALSE, mysqlConnected |-> FALSE,
          host |-> Absent, database |-> Absent, error |-> ErrorMessage(outcome)]

TestOutcomes == {"true", "false", "throwsMessage", "throwsOther"}

GET ==
  /\ \E outcome \in TestOutcomes :
       /\ testResult' = outcome
       /\ healthResponse' = HealthResponse(outcome)
  /\ UNCHANGED <<now, orders, tableExists, logs, affected, auditFailed, statsPc, statsResult, statsHist>>
  /\ UNCHANGED sweepLocals
  /\ UNCHANGED auxVars

\* ------------------------------------------ setupAutoDeliveryLogsTable
\* a creation that replaces the table
CreateTableReplace(l) == <<>>

\* CREATE TABLE IF NOT EXISTS: the rows of an existing table are kept
CreateTableIfNotExists(l) == l

\* how the call ends when the create statement fails: the catch block logs
SetupCatch == "failed"

setupAutoDeliveryLogsTable ==
  /\ \/ /\ tableExists' = TRUE
        /\ logs' = CreateTableIfNotExists(logs)
        /\ setupResult' = "ready"
     \/ /\ UNCHANGED <<tableExists, logs>>
        /\ setupResult' = SetupCatch
  /\ UNCHANGED <<now, orders, affected, auditFailed>>
  /\ UNCHANGED sweepLocals
  /\ UNCHANGED apiVars
  /\ UNCHANGED hookVars

\* ------------------------------------------------------- useAddresses
NoError == "null"

\* the address lists the API can answer with
AddressLists == {[i \in 1..n |-> i] : n \in 0..NumAddresses}

\* the body of a GET answer: a list, or null
ResponseBodies == {[isNull |-> TRUE, list |-> <<>>]}
                    \cup {[isNull |-> FALSE, list |-> l] : l \in AddressLists}

\* data || []
DataOrEmpty(body) == IF body.isNull THEN <<>> ELSE body.list

Mutations == {"create", "update", "delete"}

Awaiting == {"awaitFetch", "awaitResponse", "awaitRefresh"}

IdleCall == [op |-> "none", pc |-> "idle", user |-> FALSE, tokenReady |-> FALSE]

InFlightCall(op, at, u, t) == [op |-> op, pc |-> at, user |-> u, tokenReady |-> t]

NotReturned == [op |-> "none", status |-> "none", message |-> NoError]

Resolved(op) == [op |-> op, status |-> "resolved", message |-> NoError]

Rejected(op, msg) == [op |-> op, status |-> "rejected", message |-> msg]

\* what a rejected fetch() carries
NetworkError == "Network error"

\* errorData.error of a failure answer, when the server sets it
ServerError == "Server error"

LoadFailed == "Failed to load addresses"

NotAuthenticated == "User not authenticated"

TokenNotFound == "Authentication token not found"

DefaultMessage(op) ==
  CASE op = "create" -> "Failed to create address"
    [] op = "update" -> "Failed to update address"
    [] op = "delete" -> "Failed to delete address"

\* errorData.error || 'Failed to ... address'
FailureMessages(op) == {ServerError, DefaultMessage(op)}

\* the negation of `!user || !tokenReady`, on the closure's values
Authenticated(u, t) == u /\ t

\* fetchAddresses up to its first await, run with the closure's user and
\* tokenReady: whether it issues the GET, and the state it sets
FetchSync(u, t) ==
  IF ~Authenticated(u, t)
    THEN [request |-> FALSE, addresses |-> <<>>, loading |-> loading, error |-> error]
    ELSE IF ~token
      THEN [request |-> FALSE, addresses |-> <<>>, loading |-> FALSE, error |-> NoError]
      ELSE [request |-> TRUE, addresses |-> addresses, loading |-> TRUE, error |-> NoError]

backendVars == <<now, orders, tableExists, logs, affected, auditFailed, setupResult,
                 sweepLocals, apiVars>>

\* a call of the latest render's fetchAddresses in slot s
FetchCall(s) ==
  /\ call[s].pc = "idle"
  /\ LET f == FetchSync(user, tokenReady)
     IN /\ addresses' = f.addresses
        /\ loading' = f.loading
        /\ error' = f.error
        /\ IF f.request
             THEN /\ call' = [call EXCEPT ![s] =
                                InFlightCall("fetch", "awaitFetch", user, tokenReady)]
                  /\ UNCHANGED returned
             ELSE /\ returned' = Resolved("fetch")
                  /\ UNCHANGED call
  /\ UNCHANGED <<user, tokenReady, token>>
  /\ UNCHANGED backendVars

\* the component calls fetchAddresses
fetchAddresses(s) ==
  /\ FetchCall(s)
  /\ UNCHANGED effectPending

\* useEffect(() => { fetchAddresses() }, [fetchAddresses])
useEffect(s) ==
  /\ effectPending
  /\ effectPending' = FALSE
  /\ FetchCall(s)

\* the GET of fetchAddresses is answered: of a plain fetchAddresses, or of the
\* refresh inside a mutation, which then goes on to its success return
FetchOk(s, body) ==
  /\ addresses' = DataOrEmpty(body)
  /\ loading' = FALSE
  /\ UNCHANGED error

FetchCatch(s, msg) ==
  /\ error' = msg
  /\ loading' = FALSE
  /\ UNCHANGED addresses

FetchResponse(s) ==
  /\ call[s].pc \in {"awaitFetch", "awaitRefresh"}
  /\ \/ \E body \in ResponseBodies : FetchOk(s, body)
     \/ \E msg \in {NetworkError, LoadFailed} : FetchCatch(s, msg)
  /\ returned' = Resolved(call[s].op)
  /\ call' = [call EXCEPT ![s] = IdleCall]
  /\ UNCHANGED <<user, tokenReady, token, effectPending>>
  /\ UNCHANGED backendVars

\* createAddress, updateAddress or deleteAddress up to its first await
MutationCall(s, op) ==
  /\ call[s].pc = "idle"
  /\ IF ~Authenticated(user, tokenReady)
       THEN /\ returned' = Rejected(op, NotAuthenticated)
            /\ UNCHANGED <<loading, error, call>>
       ELSE IF ~token
         THEN /\ error' = TokenNotFound
              /\ loading' = FALSE
              /\ returned' = Rejected(op, TokenNotFound)
              /\ UNCHANGED call
         ELSE /\ loading' = TRUE
              /\ error' = NoError
              /\ call' = [call EXCEPT ![s] =
                            InFlightCall(op, "awaitResponse", user, tokenReady)]
              /\ UNCHANGED returned
  /\ UNCHANGED <<user, tokenReady, token, addresses, effectPending>>
  /\ UNCHANGED backendVars

createAddress(s) == MutationCall(s, "create")

updateAddress(s) == MutationCall(s, "update")

deleteAddress(s) == MutationCall(s, "delete")

\* the mutation's request succeeded: `await fetchAddresses()` runs the
\* fetchAddresses of the render the mutation was called from
MutationOk(s) ==
  /\ call[s].pc = "awaitResponse"
  /\ LET f == FetchSync(call[s].user, call[s].tokenReady)
     IN /\ addresses' = f.addresses
        /\ error' = f.error
        /\ IF f.request
             THEN /\ loading' = TRUE
                  /\ call' = [call EXCEPT ![s].pc = "awaitRefresh"]
                  /\ UNCHANGED returned
             ELSE /\ loading' = FALSE
                  /\ returned' = Resolved(call[s].op)
                  /\ call' = [call EXCEPT ![s] = IdleCall]
  /\ UNCHANGED <<user, tokenReady, token, effectPending>>
  /\ UNCHANGED backendVars

\* the mutation's request was rejected or answered with a failure
MutationCatch(s) ==
  /\ call[s].pc = "awaitResponse"
  /\ \E msg \in {NetworkError} \cup FailureMessages(call[s].op) :
       /\ error' = msg
       /\ returned' = Rejected(call[s].op, msg)
  /\ loading' = FALSE
  /\ call' = [call EXCEPT ![s] = IdleCall]
  /\ UNCHANGED <<user, tokenReady, token, addresses, effectPending>>
  /\ UNCHANGED backendVars

\* a render with a changed useAuth() value; fetchAddresses is a new callback,
\* so the effect is due again
AuthChange ==
  /\ \E u \in BOOLEAN, t \in BOOLEAN :
       /\ <<u, t>> # <<user, tokenReady>>
       /\ user' = u
       /\ tokenReady' = t
  /\ effectPending' = TRUE
  /\ UNCHANGED <<token, addresses, loading, error, call, returned>>
  /\ UNCHANGED backendVars

\* the auth layer stores or removes auth_token
StorageChange ==
  /\ token' = ~token
  /\ UNCHANGED <<user, tokenReady, addresses, loading, error, call, returned,
                 effectPending>>
  /\ UNCHANGED backendVars

HookStep(s) ==
  \/ fetchAddresses(s)
  \/ useEffect(s)
  \/ FetchResponse(s)
  \/ createAddress(s)
  \/ updateAddress(s)
  \/ deleteAddress(s)
  \/ MutationOk(s)
  \/ MutationCatch(s)

HookNext == \E s \in Calls : HookStep(s)

\* -------------------------------------------------------- environment
\* the database clock advances
Tick ==
  /\ now < MaxNow
  /\ now' = now + 1
  /\ UNCHANGED <<orders, tableExists, logs, affected, auditFailed>>
  /\ UNCHANGED sweepLocals
  /\ UNCHANGED apiVars
  /\ UNCHANGED auxVars

\* the manual delivery path of the order management
ExternalDeliver(id) ==
  /\ orders[id].status = "shipped"
  /\ orders' = [orders EXCEPT ![id].status = "delivered", ![id].delivered_at = now]
  /\ UNCHANGED <<now, tableExists, logs, affected, auditFailed>>
  /\ UNCHANGED sweepLocals
  /\ UNCHANGED apiVars
  /\ UNCHANGED auxVars

External == \E id \in Orders : ExternalDeliver(id)

\* the order management takes a shipped order back before shipping
ExternalReturn(id) ==
  /\ orders[id].status = "shipped"
  /\ orders' = [orders EXCEPT ![id].status = "pending", ![id].shipped_at = NULL]
  /\ UNCHANGED <<now, tableExists, logs, affected, auditFailed>>
  /\ UNCHANGED sweepLocals
  /\ UNCHANGED apiVars
  /\ UNCHANGED auxVars

\* the order management ships a pending order
ExternalShip(id) ==
  /\ orders[id].status = "pending"
  /\ orders' = [orders EXCEPT ![id].status = "shipped", ![id].shipped_at = now]
  /\ UNCHANGED <<now, tableExists, logs, affected, auditFailed>>
  /\ UNCHANGED sweepLocals
  /\ UNCHANGED apiVars
  /\ UNCHANGED auxVars

ExternalReship == \E id \in Orders : ExternalReturn(id) \/ ExternalShip(id)

\* ------------------------------------------------------ specification
InitOrder(id) ==
  {[order_number |-> OrderNumberOf(id), status |-> "pending",
    shipped_at |-> NULL, delivered_at |-> NULL]}
  \cup
  {[order_number |-> OrderNumberOf(id), status |-> "shipped",
    shipped_at |-> s, delivered_at |-> NULL] : s \in {NULL} \cup 1..MaxShippedAt}

Init ==
  /\ now = StartNow
  /\ orders \in {f \in [Orders -> UNION {InitOrder(id) : id \in Orders}] :
                   \A id \in Orders : f[id] \in InitOrder(id)}
  /\ tableExists \in BOOLEAN
  /\ logs = <<>>
  /\ pc = [p \in Procs |-> "idle"]
  /\ selected = [p \in Procs |-> <<>>]
  /\ idx = [p \in Procs |-> 1]
  /\ processedOrders = [p \in Procs |-> <<>>]
  /\ errors = [p \in Procs |-> <<>>]
  /\ result = [p \in Procs |-> NoResult]
  /\ hist = [p \in Procs |-> <<>>]
  /\ affected = [id \in Orders |-> 0]
  /\ auditFailed = [id \in Orders |-> 0]
  /\ statsPc = "idle"
  /\ statsResult = NoResult
  /\ statsHist = "none"
  /\ healthResponse = NoResult
  /\ testResult = "none"
  /\ setupResult = "none"
  /\ user = FALSE
  /\ tokenReady = FALSE
  /\ token = FALSE
  /\ addresses = <<>>
  /\ loading = FALSE
  /\ error = NoError
  /\ call = [s \in Calls |-> IdleCall]
  /\ returned = NotReturned
  /\ effectPending = TRUE

Next == SweepNext \/ Tick \/ External

Spec == Init /\ [][Next]_vars

\* the sweeper beside an order management that returns and ships orders
NextRace == SweepNext \/ Tick \/ ExternalReship

SpecRace == Init /\ [][NextRace]_vars

\* the address hook under a changing auth context
NextHook == HookNext \/ AuthChange \/ StorageChange

SpecHook == Init /\ [][NextHook]_vars

\* the sweeper alone
NextSweeps == SweepNext \/ Tick

SpecSweeps == Init /\ [][NextSweeps]_vars

\* every invocation slot keeps being scheduled
SpecLive == Init /\ [][Next]_vars /\ \A p \in Procs : WF_vars(SweepStep(p))

\* the sweeper together with getStats
NextStats == SweepNext \/ Tick \/ GetStats

SpecStats == Init /\ [][NextStats]_vars

\* the sweeper together with the creation of the audit table
NextSetup == SweepNext \/ Tick \/ setupAutoDeliveryLogsTable

SpecSetup == Init /\ [][NextSetup]_vars

\* the health-check route
NextHealth == GET \/ Tick

SpecHealth == Init /\ [][NextHealth]_vars

\* ============================================================== claims
HasEvent(p, id, ev) == \E i \in DOMAIN hist[p] : hist[p][i] = Event(id, ev)

\* the processedOrders and errors an invocation holds or has returned
Reported(p) == IF pc[p] = "done" THEN result[p].processedOrders ELSE processedOrders[p]
ReportedErrors(p) == IF pc[p] = "done" THEN result[p].errors ELSE errors[p]

Occurrences(s, x) == Cardinality({i \in DOMAIN s : s[i] = x})

LogCount(id) == Cardinality({i \in DOMAIN logs : logs[i].order_id = id})

Quiescent == \A p \in Procs : pc[p] \in {"idle", "done"}

\* C1: for every order, over all interleavings of concurrent and subsequent
\* sweeps, at most one conditional update ever affects a row for the order,
\* at most one invocation lists its order_number in processedOrders (once),
\* and an invocation lists it only if its own update affected the row.
C1_AtMostOneTransition ==
  \A id \in Orders :
    /\ affected[id] <= 1
    /\ \A p \in Procs :
         /\ Occurrences(Reported(p), OrderNumberOf(id)) <= 1
         /\ Occurrences(Reported(p), OrderNumberOf(id)) = 1 => HasEvent(p, id, "affected")
         /\ pc[p] = "done" =>
              result[p].processedCount = Len(result[p].processedOrders)
    /\ Cardinality({p \in Procs : Occurrences(Reported(p), OrderNumberOf(id)) > 0})
         <= affected[id]

\* an invocation has listed an order and another one, racing with it, has
\* returned with zero rows affected for the same order
C1_Witness ==
  \E id \in Orders : \E p, q \in Procs :
    /\ p # q
    /\ pc[p] = "done" /\ pc[q] = "done"
    /\ Occurrences(result[p].processedOrders, OrderNumberOf(id)) = 1
    /\ HasEvent(q, id, "skipped")
    /\ Occurrences(result[q].processedOrders, OrderNumberOf(id)) = 0

\* the ids a selection step leaves in the local array
SelectedIds(s) == {s[i].id : i \in DOMAIN s}

\* a step in which the selection query of p succeeds
SelectSucceeds(p) == Select(p) /\ hist'[p] = <<>>

C3_OnlyShippedToDelivered ==
  [][SweepNext =>
       /\ DOMAIN orders' = DOMAIN orders
       /\ \A id \in Orders :
            \/ orders'[id] = orders[id]
            \/ /\ orders[id].status = "shipped"
               /\ orders'[id].status = "delivered"
               /\ orders'[id].delivered_at = now
               /\ orders'[id].shipped_at = orders[id].shipped_at
               /\ orders'[id].order_number = orders[id].order_number]_vars

\* a sweep delivered one order and left alone an order that the manual
\* path had delivered after the selection
C3_Witness ==
  \E a, b \in Orders : \E p \in Procs :
    /\ HasEvent(p, a, "affected") /\ orders[a].status = "delivered"
    /\ HasEvent(p, b, "skipped") /\ affected[b] = 0
    /\ orders[b].status = "delivered"

ErrorFor(id) == [kind |-> "order", order_number |-> OrderNumberOf(id)]

\* the last database call of p's invocation got outcome ev in this step
StepEvent(p, ev) ==
  /\ Len(hist'[p]) = Len(hist[p]) + 1
  /\ hist'[p][Len(hist'[p])].ev = ev

\* C4: when one invocation's update of A throws and its update of B affects
\* a row, in either order, the result lists B in processedOrders and a
\* message for A in errors and B is 'delivered'; an update that throws on an
\* order that is not the last one is followed by the next order's update.
C4_FailureIsolation ==
  /\ [](\A p \in Procs : pc[p] = "done" =>
          \A a, b \in Orders :
            HasEvent(p, a, "threw") /\ HasEvent(p, b, "affected") =>
              /\ Occurrences(result[p].processedOrders, OrderNumberOf(b)) = 1
              /\ Occurrences(result[p].errors, ErrorFor(a)) = 1
              /\ orders[b].status = "delivered")
  /\ [][\A p \in Procs :
          Update(p) /\ StepEvent(p, "threw") /\ idx[p] < Len(selected[p]) =>
            /\ pc'[p] = "update"
            /\ idx'[p] = idx[p] + 1
            /\ selected'[p] = selected[p]]_vars

\* an invocation returned after the update of its first order threw and the
\* update of its second order affected a row
C4_Witness ==
  \E p \in Procs : \E a, b \in Orders :
    /\ pc[p] = "done"
    /\ Len(hist[p]) >= 2
    /\ hist[p][1] = Event(a, "threw")
    /\ hist[p][2] = Event(b, "affected")
    /\ result[p].processedOrders = <<OrderNumberOf(b)>>
    /\ result[p].errors = <<ErrorFor(a)>>

\* C5: when the audit insert for an order fails, the order is 'delivered',
\* the invocation lists it in processedOrders and counts it, has no error
\* message for it, and goes on with the next selected order.
C5_AuditFailureSwallowed ==
  /\ [](\A p \in Procs : \A id \in Orders :
          HasEvent(p, id, "logfail") =>
            /\ pc[p] # "thrown"
            /\ orders[id].status = "delivered"
            /\ Occurrences(Reported(p), OrderNumberOf(id)) = 1
            /\ Occurrences(ReportedErrors(p), ErrorFor(id)) = 0
            /\ pc[p] = "done" =>
                 result[p].processedCount = Len(result[p].processedOrders))
  /\ [][\A p \in Procs :
          Log(p) /\ StepEvent(p, "logfail") /\ idx[p] < Len(selected[p]) =>
            /\ pc'[p] = "update"
            /\ idx'[p] = idx[p] + 1
            /\ errors'[p] = errors[p]]_vars

\* with the audit table missing, an invocation returned two processed
\* orders and no error after the insert failed for the first of them
C5_Witness ==
  \E p \in Procs : \E a, b \in Orders :
    /\ ~tableExists
    /\ pc[p] = "done"
    /\ a # b
    /\ HasEvent(p, a, "logfail") /\ HasEvent(p, b, "affected")
    /\ result[p].processedCount = 2
    /\ result[p].errors = <<>>

SelectFailed(p) == hist[p] = <<Event(NULL, "selectfail")>>

\* C6: no exception leaves checkAndMarkDeliveredOrders, a finished
\* invocation has returned a result, and an invocation whose selection
\* query failed has returned processedCount 0, no processed order and exactly
\* one error, and has written neither an order nor an audit-log entry.
C6_NeverThrows ==
  /\ [](\A p \in Procs :
          /\ pc[p] # "thrown"
          /\ pc[p] = "done" => result[p] # NoResult
          /\ SelectFailed(p) =>
               /\ pc[p] = "done"
               /\ result[p].processedCount = 0
               /\ result[p].processedOrders = <<>>
               /\ Len(result[p].errors) = 1)
  /\ [][\A p \in Procs :
          Select(p) /\ SelectFailed(p)' => orders' = orders /\ logs' = logs]_vars

\* the selection query of an invocation failed while an eligible order
\* was waiting
C6_Witness ==
  \E p \in Procs : \E id \in Orders :
    /\ SelectFailed(p)
    /\ SelectWhere(orders[id], now)
    /\ result[p].errors = <<TopError>>

\* C7 as stated: once no sweep is running, every order has as many
\* audit-log entries as conditional updates that affected its row.
C7_ExactlyOncePerTransition ==
  Quiescent => \A id \in Orders : LogCount(id) = affected[id]

\* the audit inserts of running invocations that are still to come
InFlight(id) ==
  Cardinality({p \in Procs : pc[p] = "log" /\ selected[p][idx[p]].id = id})

\* C7 amended: every order has as many audit-log entries as conditional
\* updates that affected its row, less the audit inserts that failed and
\* those still to come; the sweeper only appends to the audit log.
C7_AtMostOncePerTransition ==
  /\ [](\A id \in Orders :
          LogCount(id) + auditFailed[id] + InFlight(id) = affected[id])
  /\ [][Len(logs') >= Len(logs) /\ SubSeq(logs', 1, Len(logs)) = logs]_vars

\* no sweep is running; one order has its audit-log entry and the audit
\* insert of another order failed
C7_Witness ==
  \E a, b \in Orders :
    /\ Quiescent
    /\ affected[a] = 1 /\ LogCount(a) = 1
    /\ affected[b] = 1 /\ LogCount(b) = 0 /\ auditFailed[b] = 1

\* an order the selection would return now
Eligible(id) == SelectWhere(orders[id], now)

\* steps in which a database call of p's invocation does not fail
SelectOk(p) == Select(p) /\ hist'[p] = <<>>
UpdateOk(p) == Update(p) /\ ~StepEvent(p, "threw")

\* C8 as stated: with sweeps scheduled again and again, every eligible
\* order eventually stops being 'shipped'.
C8_EventuallySwept ==
  \A id \in Orders : Eligible(id) ~> (orders[id].status # "shipped")

\* C8 amended: with sweeps scheduled again and again and a database whose
\* selection query and conditional update do not fail forever, every
\* eligible order eventually stops being 'shipped'.
C8_EventuallySweptIfDatabaseAnswers ==
  (\A p \in Procs : SF_vars(SelectOk(p)) /\ SF_vars(UpdateOk(p)))
    => \A id \in Orders : Eligible(id) ~> (orders[id].status # "shipped")

\* an order was delivered by a sweep that came after a sweep whose update
\* of the same order threw
C8_Witness ==
  \E id \in Orders : \E p, q \in Procs :
    /\ HasEvent(p, id, "threw") /\ pc[p] = "done"
    /\ HasEvent(q, id, "affected") /\ pc[q] = "done"
    /\ orders[id].status = "delivered"

\* C9: getStats always returns a result with errorCount 0; it returns
\* totalProcessed 0 and lastProcessed null when the audit table is missing
\* or one of its queries fails, and otherwise the number of audit-log
\* entries and the greatest processed_at at the time of the statistics query.
C9_GetStats ==
  /\ [](statsPc = "done" =>
          /\ statsResult # NoResult
          /\ statsResult.errorCount = 0
          /\ statsHist \in {"notable", "checkfail", "queryfail"} =>
               /\ statsResult.totalProcessed = 0
               /\ statsResult.lastProcessed = NULL)
  /\ [][GetStats /\ statsHist' # "none" => statsPc' = "done"]_vars
  /\ [][GetStatsTableCheck /\ statsHist' = "notable" => ~tableExists]_vars
  /\ [][GetStatsQuery /\ statsHist' = "ok" =>
          /\ statsResult'.totalProcessed = Cardinality(DOMAIN logs)
          /\ statsResult'.errorCount = 0
          /\ logs = <<>> => statsResult'.lastProcessed = NULL
          /\ logs # <<>> =>
               /\ \E i \in DOMAIN logs :
                    logs[i].processed_at = statsResult'.lastProcessed
               /\ \A i \in DOMAIN logs :
                    logs[i].processed_at <= statsResult'.lastProcessed]_vars

\* getStats returned the statistics of two entries written on different
\* days while a sweep had reported an error
C9_Witness ==
  /\ statsPc = "done" /\ statsHist = "ok"
  /\ statsResult.totalProcessed = 2
  /\ Len(logs) = 2 /\ logs[1].processed_at < logs[2].processed_at
  /\ statsResult.lastProcessed = logs[2].processed_at
  /\ \E p \in Procs : pc[p] = "done" /\ result[p].errors # <<>>

\* C10 as stated: GET reports success with host and database when the
\* connection test succeeds, and status 500 with an error message whenever
\* the test returns false or throws.
C10_ErrorOnEveryFailure ==
  healthResponse # NoResult =>
    IF testResult = "true"
      THEN /\ healthResponse.success
           /\ healthResponse.host = DatabaseConfig.host
           /\ healthResponse.database = DatabaseConfig.database
      ELSE /\ healthResponse.status = 500
           /\ healthResponse.error # Absent

\* C10 amended: GET reports success with host and database when the
\* connection test succeeds; status 500 with an error message when the test
\* throws; status 500 without an error message when the test returns false.
C10_HealthCheck ==
  healthResponse # NoResult =>
    CASE testResult = "true" ->
           /\ healthResponse.success
           /\ healthResponse.status = 200
           /\ healthResponse.host = DatabaseConfig.host
           /\ healthResponse.database = DatabaseConfig.database
      [] testResult = "false" ->
           /\ ~healthResponse.success
           /\ healthResponse.status = 500
           /\ healthResponse.error = Absent
      [] OTHER ->
           /\ ~healthResponse.success
           /\ healthResponse.status = 500
           /\ healthResponse.error # Absent

\* GET answered a connection test that returned false
C10_Witness ==
  /\ testResult = "false"
  /\ healthResponse # NoResult
  /\ healthResponse.status = 500
  /\ ~healthResponse.mysqlConnected

\* C11: setupAutoDeliveryLogsTable never throws; a call leaves the audit
\* table present if it was present or the create statement succeeded, keeps
\* every entry, and changes nothing when the table exists or the create
\* statement fails, after which sweeps still run.
C11_SetupIdempotent ==
  /\ [](setupResult \in {"none", "ready", "failed"})
  /\ [](~tableExists => logs = <<>>)
  /\ [][setupAutoDeliveryLogsTable =>
          /\ logs' = logs
          /\ tableExists => tableExists'
          /\ setupResult' = "ready" => tableExists'
          /\ setupResult' = "failed" => tableExists' = tableExists]_vars
  /\ [][\A p \in Procs : setupResult = "failed" /\ SweepStep(p) =>
          pc'[p] # "thrown"]_vars

\* the audit table holds an entry written by a sweep, and a call whose
\* create statement failed has left the table and the entry in place
C11_Witness ==
  /\ setupResult = "failed"
  /\ tableExists
  /\ Len(logs) >= 1
  /\ \E p \in Procs : pc[p] = "done" /\ result[p].processedCount >= 1

\* C12: an invocation whose selection returns no order returns
\* processedCount 0, no processed order and no error in the same step,
\* without an update and without an audit insert.
C12_EmptySelection ==
  [][\A p \in Procs :
       SelectOk(p) /\ {id \in Orders : Eligible(id)} = {} =>
         /\ pc'[p] = "done"
         /\ result'[p].processedCount = 0
         /\ result'[p].processedOrders = <<>>
         /\ result'[p].errors = <<>>
         /\ orders' = orders
         /\ logs' = logs
         /\ affected' = affected]_vars

\* an invocation found nothing to select once every order was delivered or
\* too young, and returned the empty result
C12_Witness ==
  \E p \in Procs :
    /\ pc[p] = "done"
    /\ hist[p] = <<>>
    /\ result[p].processedCount = 0
    /\ result[p].errors = <<>>
    /\ \E id \in Orders : orders[id].status = "delivered"
    /\ \A id \in Orders : ~Eligible(id)

\* the order with an order_number
OrderOfNumber(n) == CHOOSE id \in Orders : OrderNumberOf(id) = n

\* the events of h that are outcomes of a conditional update
RECURSIVE UpdateOutcomes(_)
UpdateOutcomes(h) ==
  IF h = <<>> THEN <<>>
  ELSE IF Head(h).ev \in {"affected", "skipped", "threw"}
         THEN <<Head(h).id>> \o UpdateOutcomes(Tail(h))
         ELSE UpdateOutcomes(Tail(h))

\* C13: the selected orders are in ascending shipped_at order; their
\* updates happen in that order, each one after the update and the audit
\* insert of the order before it; processedOrders is oldest-shipped first.
C13_SequentialOldestFirst ==
  /\ [](\A p \in Procs : pc[p] \in {"update", "log"} =>
          /\ \A i, j \in DOMAIN selected[p] :
               i < j => selected[p][i].shipped_at <= selected[p][j].shipped_at
          /\ UpdateOutcomes(hist[p]) =
               [i \in 1..(IF pc[p] = "log" THEN idx[p] ELSE idx[p] - 1) |->
                  selected[p][i].id])
  /\ [](\A p \in Procs : \A i, j \in DOMAIN Reported(p) :
          i < j => orders[OrderOfNumber(Reported(p)[i])].shipped_at
                     <= orders[OrderOfNumber(Reported(p)[j])].shipped_at)
  /\ [][\A p \in Procs : Update(p) =>
          \/ hist[p] = <<>>
          \/ hist[p][Len(hist[p])].ev \in {"skipped", "threw", "logged", "logfail"}]_vars

\* an invocation returned two processed orders, the one shipped earlier
\* first, after an audit insert for each of them
C13_Witness ==
  \E p \in Procs :
    /\ pc[p] = "done"
    /\ Len(result[p].processedOrders) = 2
    /\ orders[OrderOfNumber(result[p].processedOrders[1])].shipped_at
         < orders[OrderOfNumber(result[p].processedOrders[2])].shipped_at
    /\ Len(hist[p]) = 4
    /\ hist[p][2].ev = "logged" /\ hist[p][3].ev = "affected"

\* C14: an update that affects zero rows changes no order and writes no
\* audit entry; the invocation lists the order neither in processedOrders
\* nor in errors and makes no audit insert for it.
C14_ZeroRowsIsSkip ==
  /\ [](\A p \in Procs : \A id \in Orders :
          HasEvent(p, id, "skipped") =>
            /\ Occurrences(Reported(p), OrderNumberOf(id)) = 0
            /\ Occurrences(ReportedErrors(p), ErrorFor(id)) = 0
            /\ ~HasEvent(p, id, "logged")
            /\ ~HasEvent(p, id, "logfail"))
  /\ [][\A p \in Procs :
          Update(p) /\ StepEvent(p, "skipped") =>
            /\ orders' = orders
            /\ logs' = logs
            /\ pc'[p] # "log"]_vars

\* the manual path delivered the only selected order between an
\* invocation's selection and its update, and the invocation returned an
\* empty result
C14_Witness ==
  \E p \in Procs : \E id \in Orders :
    /\ pc[p] = "done"
    /\ hist[p] = <<Event(id, "skipped")>>
    /\ affected[id] = 0
    /\ orders[id].status = "delivered"
    /\ result[p] = EmptyResult
    /\ LogCount(id) = 0

\* what a throwing update leaves behind, apart from the order itself
ThrowRecorded ==
  /\ [](\A p \in Procs : \A id \in Orders :
          HasEvent(p, id, "threw") =>
            /\ Occurrences(UpdateOutcomes(hist[p]), id) = 1
            /\ Occurrences(ReportedErrors(p), ErrorFor(id)) = 1
            /\ ~HasEvent(p, id, "logged")
            /\ ~HasEvent(p, id, "logfail"))
  /\ [][\A p \in Procs :
          Update(p) /\ StepEvent(p, "threw") =>
            /\ Len(ReportedErrors(p)') = Len(ReportedErrors(p)) + 1
            /\ logs' = logs]_vars

\* C15 as stated: an update that throws leaves the order 'shipped' with its
\* delivered_at unchanged, adds exactly one message for it to errors, is
\* followed by no audit insert and by no second update of the order in the
\* same invocation.
C15_ThrowLeavesShipped ==
  /\ ThrowRecorded
  /\ [][\A p \in Procs :
          Update(p) /\ StepEvent(p, "threw") =>
            /\ orders'[selected[p][idx[p]].id] = orders[selected[p][idx[p]].id]
            /\ orders'[selected[p][idx[p]].id].status = "shipped"]_vars

\* C15 amended: an update that throws leaves the order as it was before the
\* attempt (which is 'shipped' unless another sweep or the manual path
\* changed it after the selection), adds exactly one message for it to
\* errors, is followed by no audit insert and by no second update of the
\* order in the same invocation.
C15_ThrowLeavesOrder ==
  /\ ThrowRecorded
  /\ [][\A p \in Procs :
          Update(p) /\ StepEvent(p, "threw") =>
            /\ orders' = orders
            /\ affected' = affected]_vars

\* an invocation returned one error for an order whose update threw; the
\* order is still 'shipped' and has no audit entry
C15_Witness ==
  \E p \in Procs : \E id \in Orders :
    /\ pc[p] = "done"
    /\ HasEvent(p, id, "threw")
    /\ orders[id].status = "shipped" /\ orders[id].delivered_at = NULL
    /\ result[p].errors = <<ErrorFor(id)>>
    /\ LogCount(id) = 0

\* C17: under every interleaving of sweeps and the manual delivery path,
\* an order has at most one audit-log entry, and an entry is appended only by
\* the audit insert of an invocation whose preceding step was its own
\* update of that order with one row affected.
C17_OneEntryAfterTransition ==
  /\ [](\A id \in Orders : LogCount(id) <= 1 /\ LogCount(id) <= affected[id])
  /\ [][logs' # logs =>
          \E p \in Procs :
            /\ Log(p)
            /\ Len(logs') = Len(logs) + 1
            /\ hist[p] # <<>>
            /\ hist[p][Len(hist[p])] =
                 Event(logs'[Len(logs')].order_id, "affected")
            /\ orders[logs'[Len(logs')].order_id].status = "delivered"]_vars

\* two invocations raced on an order: one wrote its single audit entry,
\* the other affected no row and wrote none
C17_Witness ==
  \E id \in Orders : \E p, q \in Procs :
    /\ p # q
    /\ HasEvent(p, id, "logged")
    /\ HasEvent(q, id, "skipped")
    /\ LogCount(id) = 1
    /\ affected[id] = 1

HasEventIn(h, id, ev) == \E k \in DOMAIN h : h[k] = Event(id, ev)

\* C19: every returned result has processedCount equal to the length of
\* processedOrders and lists no order twice; when the loop returns, every
\* selected order has exactly one outcome, processed (listed in
\* processedOrders), error (a message in errors) or skipped (neither), so
\* that processedCount plus the number of errors is at most the number of
\* selected orders.
C19_ResultAccounting ==
  /\ [](\A p \in Procs : pc[p] = "done" =>
          /\ result[p].processedCount = Len(result[p].processedOrders)
          /\ \A id \in Orders :
               Occurrences(result[p].processedOrders, OrderNumberOf(id)) <= 1)
  /\ [][\A p \in Procs :
          pc[p] \in {"update", "log"} /\ pc'[p] = "done" =>
            /\ Len(UpdateOutcomes(hist'[p])) = Len(selected[p])
            /\ result'[p].processedCount + Len(result'[p].errors) <= Len(selected[p])
            /\ \A i \in DOMAIN selected[p] :
                 LET id == selected[p][i].id
                     listed == Occurrences(result'[p].processedOrders, OrderNumberOf(id))
                     failed == Occurrences(result'[p].errors, ErrorFor(id))
                 IN /\ Occurrences(UpdateOutcomes(hist'[p]), id) = 1
                    /\ listed + failed <= 1
                    /\ listed = 1 <=> HasEventIn(hist'[p], id, "affected")
                    /\ failed = 1 <=> HasEventIn(hist'[p], id, "threw")
                    /\ listed + failed = 0 <=> HasEventIn(hist'[p], id, "skipped")]_vars

\* an invocation returned one processed order and no error for two
\* selected orders, the other one having been skipped
C19_Witness ==
  \E p \in Procs : \E a, b \in Orders :
    /\ pc[p] = "done"
    /\ HasEvent(p, a, "affected") /\ HasEvent(p, b, "skipped")
    /\ result[p].processedCount = 1
    /\ result[p].processedOrders = <<OrderNumberOf(a)>>
    /\ result[p].errors = <<>>

\* C18: every order a sweep's update takes to 'delivered' is, at that
\* write, 'shipped' with a shipped_at at least 7 days before the current time,
\* also when the order was returned and shipped again after the selection.
C18_EligibleAtWrite ==
  [][\A p \in Procs :
       Update(p) /\ StepEvent(p, "affected") =>
         /\ orders[selected[p][idx[p]].id].status = "shipped"
         /\ orders[selected[p][idx[p]].id].shipped_at # NULL
         /\ now - orders[selected[p][idx[p]].id].shipped_at >= SevenDays]_vars

\* slot s issues a request to the address API in this step
Issues(s) == call'[s].pc \in Awaiting /\ call'[s].pc # call[s].pc

\* a user is authenticated, tokenReady is true and an auth token is stored
MayRequest == user /\ tokenReady /\ token

\* C16: the address hook issues no request unless a user is authenticated,
\* tokenReady is true and an auth token is stored: createAddress, updateAddress
\* and deleteAddress called otherwise fail with an error and leave the
\* addresses list unchanged, and fetchAddresses called otherwise, by the
\* component, by the effect or as the refresh after a mutation, sets the
\* addresses list to empty without a request.
C16_NoRequestUnlessAuthenticated ==
  [][\A s \in Calls :
       /\ Issues(s) => MayRequest
       /\ \A op \in Mutations :
            MutationCall(s, op) /\ ~MayRequest =>
              /\ returned' = Rejected(op, returned'.message)
              /\ returned'.message # NoError
              /\ addresses' = addresses
              /\ ~Issues(s)
       /\ (FetchCall(s) \/ MutationOk(s)) /\ ~MayRequest =>
              /\ addresses' = <<>>
              /\ ~Issues(s)]_vars

\* the same, for the operations the component or the effect calls: the guards
\* at the head of each operation, on the latest render's user and tokenReady
C16_GuardedAtCall ==
  [][\A s \in Calls :
       /\ Issues(s) =>
            /\ token
            /\ call[s].pc = "idle" => MayRequest
            /\ call[s].pc = "awaitResponse" => call[s].user /\ call[s].tokenReady
       /\ \A op \in Mutations :
            MutationCall(s, op) /\ ~MayRequest =>
              /\ returned' = Rejected(op, returned'.message)
              /\ returned'.message # NoError
              /\ addresses' = addresses
              /\ ~Issues(s)
       /\ FetchCall(s) /\ ~MayRequest =>
              /\ addresses' = <<>>
              /\ ~Issues(s)]_vars

====
